---- MODULE Spec2Model ----
(***************************************************************************)
(* Career Pilot backend: the Application store and the handlers that       *)
(* write it (tracker controller, applications controller), together with   *)
(* the Job store handlers that decide whether a jobId resolves.            *)
(*                                                                         *)
(* Every handler runs to completion as one action.  `last` holds the       *)
(* latest request and the HTTP status code it was answered with.           *)
(*                                                                         *)
(* No handler reads `last`, and a rejected request leaves every other      *)
(* variable as it was: the requests that can follow a rejected request are *)
(* those that can follow the state before it.  A behaviour is therefore    *)
(* followed up to its first rejected request (Nows).                       *)
(*                                                                         *)
(* Analytics is the specification of getAnalytics over drawn collections.  *)
(* Steps is the specification in which a handler is one action per store   *)
(* call it awaits, so that two requests interleave and a store call fails. *)
(***************************************************************************)
EXTENDS Integers, FiniteSets, Sequences, TLC

(* ------------------------------ bounds --------------------------------- *)
MaxApps == 2        \* Application documents ever inserted
MaxJobs == 1        \* Job documents ever inserted
MaxTime == 2        \* last value of Date.now()
MaxTimedApps == 1   \* Application documents ever inserted once the clock has ticked

(* ------------------------------ constants ------------------------------ *)
Users == {"u1", "u2"}

\* req.user.role: register always stores 'user'
role == [u \in Users |-> "user"]

validStatuses == {"saved", "applied", "interviewing", "offer", "rejected"}

\* the error handler's message for a mongoose ValidationError on status
ValidationMessage == "archived is not a valid enum value for path status."

\* a status string outside the enum, and a body without a status
BadStatus == "archived"
NoStatus == "undefined"
ReqStatuses == validStatuses \cup {BadStatus, NoStatus}

\* a Date path that was never set
NoDate == 0

\* a body without a jobId
NoJob == 0

AppIds == 1..MaxApps
JobIds == 1..MaxJobs

(* ------------------------------ state ---------------------------------- *)
VARIABLES
    apps,       \* Application collection: _id -> document
    jobs,       \* Job collection: _id -> document
    nextApp,    \* next fresh Application _id
    nextJob,    \* next fresh Job _id
    clock,      \* Date.now() of the latest write
    ever,       \* history: _id -> the pipeline stages the document has been in
    last,       \* the latest request and the status code of its answer
    calls       \* the requests in flight, each with the position of its handler

vars == <<apps, jobs, nextApp, nextJob, clock, ever, last, calls>>

\* the latest request was rejected
Rejects == last.code \in {400, 403, 404}

\* Date.now() of the next request that is followed: non-decreasing from one
\* request to the next
Nows ==
    {t \in {clock, clock + 1} :
        /\ ~Rejects
        /\ t <= MaxTime
        /\ t > clock => nextApp <= MaxTimedApps + 1}

\* the pipeline stages a status belongs to: 'applied' or later, and the
\* two responses
Later == {"applied", "interviewing", "offer", "rejected"}
Responses == {"offer", "rejected"}
Stages(st) ==
    (IF st \in Later THEN {"appliedOrLater"} ELSE {})
        \cup (IF st \in Responses THEN {"response"} ELSE {})

\* a request: handler, req.user.id, req.params.id (0: none), req.body.jobId,
\* req.body.status
Req(op, u, id, j, s) == [op |-> op, user |-> u, id |-> id, job |-> j, status |-> s]

\* res.status(code).json({ success: true, ... }) after a write at time t
Answer(req, t, code) ==
    /\ last' = [req |-> req, code |-> code, error |-> ""]
    /\ clock' = t
    /\ UNCHANGED calls

\* return next(new ErrorResponse(message, code)), answered by the error
\* handler with { success: false, error: message }: nothing is written
Rejected(req, t, code, message) ==
    /\ t = clock
    /\ last' = [req |-> req, code |-> code, error |-> message]
    /\ UNCHANGED clock
    /\ UNCHANGED <<apps, jobs, nextApp, nextJob, ever, calls>>

(* ------------------------------ schema --------------------------------- *)
\* the paths of ApplicationSchema that no create or update names: they are
\* unset in a new document
Unset == "undefined"
Unnamed ==
    [salary |-> Unset, notes |-> Unset, interviewDate |-> Unset,
     interviewTime |-> Unset, interviewType |-> Unset,
     interviewLocation |-> Unset]

\* mutant: the supplied status is dropped, every document starts 'saved'
NewApplicationSaved(u, j, s, t) ==
    [user |-> u, job |-> j, status |-> "saved",
     appliedDate |-> NoDate, responseDate |-> NoDate,
     createdAt |-> t, updatedAt |-> t] @@ Unnamed

\* ApplicationSchema: status defaults to 'saved', the two dates have no
\* default, createdAt/updatedAt default to Date.now, pre('save') sets updatedAt
NewApplication(u, j, s, t) ==
    [user |-> u, job |-> j,
     status |-> IF s = NoStatus THEN "saved" ELSE s,
     appliedDate |-> NoDate, responseDate |-> NoDate,
     createdAt |-> t, updatedAt |-> t] @@ Unnamed

\* enum validator of the status path (create, and updates with runValidators)
StatusValidates(s) == s = NoStatus \/ s \in validStatuses

Init ==
    /\ apps = <<>>
    /\ jobs = <<>>
    /\ nextApp = 1
    /\ nextJob = 1
    /\ clock = 1
    /\ ever = <<>>
    /\ last = [req |-> Req("none", "u1", 0, NoJob, NoStatus), code |-> 0, error |-> ""]
    /\ calls = <<>>

(* ------------------------------ Job store ------------------------------ *)
\* POST /api/jobs with all required fields
createJob(u, t) ==
    /\ nextJob <= MaxJobs
    /\ Answer(Req("createJob", u, 0, NoJob, NoStatus), t, 201)
    /\ jobs' = [j \in DOMAIN jobs \cup {nextJob} |->
                  IF j = nextJob THEN [postedBy |-> u] ELSE jobs[j]]
    /\ nextJob' = nextJob + 1
    /\ UNCHANGED <<apps, nextApp, ever>>

\* DELETE /api/jobs/:id
deleteJob(u, j, t) ==
    IF j \notin DOMAIN jobs
    THEN Rejected(Req("deleteJob", u, 0, j, NoStatus), t, 404,
                  "Job not found")
    ELSE IF jobs[j].postedBy # u /\ role[u] # "admin"
    THEN Rejected(Req("deleteJob", u, 0, j, NoStatus), t, 403,
                  "Not authorized to delete this job")
    ELSE /\ Answer(Req("deleteJob", u, 0, j, NoStatus), t, 200)
         /\ jobs' = [k \in DOMAIN jobs \ {j} |-> jobs[k]]
         /\ UNCHANGED <<apps, nextApp, nextJob, ever>>

(* ------------------------------ store helpers -------------------------- *)
\* Application.create
Insert(doc) ==
    /\ apps' = [i \in DOMAIN apps \cup {nextApp} |->
                  IF i = nextApp THEN doc ELSE apps[i]]
    /\ ever' = [i \in DOMAIN apps \cup {nextApp} |->
                  IF i = nextApp THEN Stages(doc.status) ELSE ever[i]]
    /\ nextApp' = nextApp + 1

\* mutant: the delete cascades to every application for the same job
RemoveForJob(id) ==
    /\ apps' = [i \in {k \in DOMAIN apps : apps[k].job # apps[id].job} |-> apps[i]]
    /\ ever' = [i \in {k \in DOMAIN apps : apps[k].job # apps[id].job} |-> ever[i]]

\* application.remove()
Remove(id) ==
    /\ apps' = [i \in DOMAIN apps \ {id} |-> apps[i]]
    /\ ever' = [i \in DOMAIN ever \ {id} |-> ever[i]]

\* Application.findByIdAndUpdate(id, updateData): merges the named fields
Update(id, doc) ==
    /\ apps' = [apps EXCEPT ![id] = doc]
    /\ ever' = [ever EXCEPT ![id] = @ \cup Stages(doc.status)]

\* mutant: the ownership check never fires
NotOwnerNever(doc, u) == FALSE

\* application.user.toString() !== req.user.id
NotOwner(doc, u) == doc.user # u

\* Application.findOne({ user, job })
findOne(u, j) == {i \in DOMAIN apps : apps[i].user = u /\ apps[i].job = j}

(* ------------------------------ tracker controller --------------------- *)
\* mutant: the query has no user filter
findEveryUser(u) == DOMAIN apps

\* Application.find({ user: userId })
find(u) == {i \in DOMAIN apps : apps[i].user = u}

\* applicationsByStatus: one filter of the found documents per status (the
\* documents are named by their _id; sort('-updatedAt') orders each bucket and
\* decides no membership)
applicationsByStatus(u) ==
    [st \in validStatuses |-> {i \in find(u) : apps[i].status = st}]

\* GET /api/tracker: reads only
getApplications(u, t) ==
    /\ t = clock
    /\ last' = [req |-> Req("trackerList", u, 0, NoJob, NoStatus),
                code |-> 200, error |-> "",
                data |-> applicationsByStatus(u)]
    /\ UNCHANGED <<apps, jobs, nextApp, nextJob, clock, ever, calls>>

\* mutant: appliedDate is stamped on every move out of 'saved'
StampsAppliedLeavingSaved(cur, s) == s # "saved" /\ cur = "saved"

\* updateApplicationStatus: "Set appliedDate if status is changing to 'applied'"
StampsApplied(cur, s) == s = "applied" /\ cur # "applied"

\* updateApplicationStatus: "Set responseDate if status is changing to offer
\* or rejected"
StampsResponse(cur, s) ==
    s \in {"offer", "rejected"} /\ cur # "offer" /\ cur # "rejected"

\* mutant: a forward-only pipeline, a move back to 'saved' keeps the status
updateDataForwardOnly(doc, s, t) ==
    [doc EXCEPT !.status = IF s = "saved" /\ @ # "saved" THEN @ ELSE s,
                !.updatedAt = t,
                !.appliedDate = IF StampsApplied(doc.status, s) THEN t ELSE @,
                !.responseDate = IF StampsResponse(doc.status, s) THEN t ELSE @]

\* mutant: the stored document is replaced by a new one with the status
updateDataReplacing(doc, s, t) ==
    NewApplication(doc.user, doc.job, s, t)

\* updateData merged into the stored document
updateData(doc, s, t) ==
    [doc EXCEPT !.status = s,
                !.updatedAt = t,
                !.appliedDate = IF StampsApplied(doc.status, s) THEN t ELSE @,
                !.responseDate = IF StampsResponse(doc.status, s) THEN t ELSE @]

\* PUT /api/tracker/:id
updateApplicationStatus(u, id, s, t) ==
    IF s \notin validStatuses
    THEN Rejected(Req("trackerUpdate", u, id, NoJob, s), t, 400,
                  "Invalid status")
    ELSE IF id \notin DOMAIN apps
    THEN Rejected(Req("trackerUpdate", u, id, NoJob, s), t, 404,
                  "Application not found")
    ELSE IF NotOwner(apps[id], u)
    THEN Rejected(Req("trackerUpdate", u, id, NoJob, s), t, 403,
                  "Not authorized to update this application")
    ELSE /\ Answer(Req("trackerUpdate", u, id, NoJob, s), t, 200)
         /\ Update(id, updateData(apps[id], s, t))
         /\ UNCHANGED <<jobs, nextApp, nextJob>>

\* mutant: the existence check never finds a document
existingApplicationNever(u, j) == FALSE

\* the existence check of the tracker's create
existingApplication(u, j) == findOne(u, j) # {}

\* POST /api/tracker
trackerCreateApplication(u, j, s, t) ==
    IF j = NoJob
    THEN Rejected(Req("trackerCreate", u, 0, j, s), t, 400,
                  "Please provide a job ID")
    ELSE IF j \notin DOMAIN jobs
    THEN Rejected(Req("trackerCreate", u, 0, j, s), t, 404,
                  "Job not found")
    ELSE IF existingApplication(u, j)
    THEN Rejected(Req("trackerCreate", u, 0, j, s), t, 400,
                  "Application for this job already exists")
    ELSE IF ~StatusValidates(s)
    THEN Rejected(Req("trackerCreate", u, 0, j, s), t, 400,
                  ValidationMessage)
    ELSE /\ Answer(Req("trackerCreate", u, 0, j, s), t, 201)
         /\ nextApp <= MaxApps /\ (t > 1 => nextApp <= MaxTimedApps)
         /\ Insert(NewApplication(u, j, s, t))
         /\ UNCHANGED <<jobs, nextJob>>

\* DELETE /api/tracker/:id
trackerDeleteApplication(u, id, t) ==
    IF id \notin DOMAIN apps
    THEN Rejected(Req("trackerDelete", u, id, NoJob, NoStatus), t, 404,
                  "Application not found")
    ELSE IF NotOwner(apps[id], u)
    THEN Rejected(Req("trackerDelete", u, id, NoJob, NoStatus), t, 403,
                  "Not authorized to delete this application")
    ELSE /\ Answer(Req("trackerDelete", u, id, NoJob, NoStatus), t, 200)
         /\ Remove(id)
         /\ UNCHANGED <<jobs, nextApp, nextJob>>

(* ------------------------------ applications controller ---------------- *)
\* POST /api/applications
createApplication(u, j, s, t) ==
    IF j = NoJob
    THEN Rejected(Req("appCreate", u, 0, j, s), t, 400,
                  "Please provide a job ID")
    ELSE IF j \notin DOMAIN jobs
    THEN Rejected(Req("appCreate", u, 0, j, s), t, 404,
                  "Job not found")
    ELSE IF ~StatusValidates(s)
    THEN Rejected(Req("appCreate", u, 0, j, s), t, 400,
                  ValidationMessage)
    ELSE /\ Answer(Req("appCreate", u, 0, j, s), t, 201)
         /\ nextApp <= MaxApps /\ (t > 1 => nextApp <= MaxTimedApps)
         /\ Insert(NewApplication(u, j, s, t))
         /\ UNCHANGED <<jobs, nextJob>>

\* mutant: updatedAt is written only when the status changes
statusUpdateOnChange(doc, s, t) ==
    [doc EXCEPT !.status = IF s = NoStatus THEN @ ELSE s,
                !.updatedAt = IF s = doc.status THEN @ ELSE t]

\* { status, updatedAt: Date.now() }: a key whose value is undefined is
\* stripped from the update, the other keys are merged
statusUpdate(doc, s, t) ==
    [doc EXCEPT !.status = IF s = NoStatus THEN @ ELSE s,
                !.updatedAt = t]

\* PUT /api/applications/:id
updateApplication(u, id, s, t) ==
    IF id \notin DOMAIN apps
    THEN Rejected(Req("appUpdate", u, id, NoJob, s), t, 404,
                  "Application not found")
    ELSE IF NotOwner(apps[id], u)
    THEN Rejected(Req("appUpdate", u, id, NoJob, s), t, 403,
                  "Not authorized to update this application")
    ELSE IF ~StatusValidates(s)
    THEN Rejected(Req("appUpdate", u, id, NoJob, s), t, 400,
                  ValidationMessage)
    ELSE /\ Answer(Req("appUpdate", u, id, NoJob, s), t, 200)
         /\ Update(id, statusUpdate(apps[id], s, t))
         /\ UNCHANGED <<jobs, nextApp, nextJob>>

\* DELETE /api/applications/:id
deleteApplication(u, id, t) ==
    IF id \notin DOMAIN apps
    THEN Rejected(Req("appDelete", u, id, NoJob, NoStatus), t, 404,
                  "Application not found")
    ELSE IF NotOwner(apps[id], u)
    THEN Rejected(Req("appDelete", u, id, NoJob, NoStatus), t, 403,
                  "Not authorized to delete this application")
    ELSE /\ Answer(Req("appDelete", u, id, NoJob, NoStatus), t, 200)
         /\ Remove(id)
         /\ UNCHANGED <<jobs, nextApp, nextJob>>

(* ------------------------------ analytics: dates ----------------------- *)
\* A Date is a count of instants since the epoch; two instants a day
\* (midnight, noon), months of equal length
InstantsPerDay == 2
DaysPerMonth == 30
Day == InstantsPerDay
Month == DaysPerMonth * Day
Year == 12 * Month

\* req.query.range: the five tags and a string that is none of them
Ranges == {"7d", "30d", "90d", "ytd", "all", "1y"}

\* the switch on range: startDate of the window for a request at time now
startDate(range, now) ==
    CASE range = "7d" -> now - 7 * Day
      [] range = "30d" -> now - 30 * Day
      [] range = "90d" -> now - 90 * Day
      [] range = "ytd" -> (now \div Year) * Year
      [] range = "all" -> 0
      [] OTHER -> now - 30 * Day

\* new Date(now.getFullYear(), now.getMonth() - i, 1): the first instant of
\* the month i months before the month of now
monthDate(i, now) == ((now \div Month) - i) * Month

\* new Date(now.getFullYear(), now.getMonth() - i + 1, 0): day 0 of the next
\* month, which is midnight at the start of the last day of the month
monthEnd(i, now) == monthDate(i - 1, now) - Day

(* ------------------------------ analytics: numbers --------------------- *)
\* Math.round(n / d) for d > 0: the nearest integer, a half goes up
Round(n, d) == (2 * n + d) \div (2 * d)

\* (n / d).toFixed(1) for d > 0, in tenths: the nearest tenth, a half goes
\* away from zero
ToFixed1(n, d) ==
    IF n >= 0 THEN (20 * n + d) \div (2 * d)
    ELSE 0 - ((20 * (0 - n) + d) \div (2 * d))

\* the elements of a set of _ids in their natural (insertion) order
RECURSIVE SortedIds(_)
SortedIds(S) ==
    IF S = {} THEN <<>>
    ELSE LET m == CHOOSE x \in S : \A y \in S : x <= y
         IN  <<m>> \o SortedIds(S \ {m})

\* array.reduce((total, x) => total + f(x), 0) for an array of numbers
RECURSIVE SumSeq(_)
SumSeq(q) == IF q = <<>> THEN 0 ELSE Head(q) + SumSeq(Tail(q))

(* ------------------------------ analytics: queries --------------------- *)
\* Application.find({ user, createdAt: { $gte: startDate } }): the _ids of the
\* documents found, in natural order
applications(u, range, now) ==
    LET found(i) == /\ apps[i].user = u
                    /\ apps[i].createdAt >= startDate(range, now)
    IN  SelectSeq(SortedIds(DOMAIN apps), found)

\* Job.find({ postedBy, createdAt: { $gte: startDate } })
postedJobs(u, range, now) ==
    LET found(j) == /\ jobs[j].postedBy = u
                    /\ jobs[j].createdAt >= startDate(range, now)
    IN  SelectSeq(SortedIds(DOMAIN jobs), found)

\* mutant: 'interviewing' and 'offer' are counted for 'applied' as well
statusCountFrom(A, st) ==
    LET is(i) == apps[i].status = st
                    \/ (st = "applied" /\ apps[i].status \in {"interviewing", "offer"})
    IN  Len(SelectSeq(A, is))

\* applications.filter(app => app.status === st).length
statusCount(A, st) ==
    LET is(i) == apps[i].status = st
    IN  Len(SelectSeq(A, is))

\* mutant: the rate is the truncated percentage
rateTruncated(count, total) ==
    IF total > 0 THEN (100 * count) \div total ELSE 0

\* total > 0 ? Math.round((count / total) * 100) : 0
rate(count, total) ==
    IF total > 0 THEN Round(100 * count, total) ELSE 0

\* mutant: every application with a responseDate is a responded one
respondedWithResponseDate(A) ==
    LET both(i) == apps[i].responseDate # NoDate
    IN  SelectSeq(A, both)

\* applications.filter(app => app.responseDate && app.appliedDate)
respondedApplications(A) ==
    LET both(i) == apps[i].responseDate # NoDate /\ apps[i].appliedDate # NoDate
    IN  SelectSeq(A, both)

\* averageResponseTime in tenths of a day: 0 when there is no responded
\* application, else (totalResponseTime / length).toFixed(1)
averageResponseTime(A) ==
    LET R == respondedApplications(A)
        totalResponseTime ==
            SumSeq([k \in 1..Len(R) |->
                      apps[R[k]].responseDate - apps[R[k]].appliedDate])
    IN  IF Len(R) > 0 THEN ToFixed1(totalResponseTime, Len(R) * Day) ELSE 0

\* statusDistribution
statusDistribution(A) == [st \in validStatuses |-> statusCount(A, st)]

(* ------------------------------ analytics: salary ---------------------- *)
\* a string is the sequence of its characters
Digits == {"0", "1", "2", "3", "4", "5", "6", "7", "8", "9"}
DigitValue ==
    "0" :> 0 @@ "1" :> 1 @@ "2" :> 2 @@ "3" :> 3 @@ "4" :> 4 @@
    "5" :> 5 @@ "6" :> 6 @@ "7" :> 7 @@ "8" :> 8 @@ "9" :> 9

\* str.match(/\d+/g): the maximal runs of digits, left to right (no run: null,
\* here the empty sequence); cur is the run being read, found the runs so far
RECURSIVE match(_, _, _)
match(str, cur, found) ==
    IF str = <<>>
    THEN IF cur = <<>> THEN found ELSE Append(found, cur)
    ELSE IF Head(str) \in Digits
    THEN match(Tail(str), Append(cur, Head(str)), found)
    ELSE match(Tail(str), <<>>, IF cur = <<>> THEN found ELSE Append(found, cur))

\* parseInt of a run of digits
RECURSIVE parseInt(_)
parseInt(run) ==
    IF run = <<>> THEN 0
    ELSE 10 * parseInt(SubSeq(run, 1, Len(run) - 1)) + DigitValue[run[Len(run)]]

\* str.includes('$')
includesDollar(str) == \E k \in 1..Len(str) : str[k] = "$"

\* jobs.filter(job => job.salary && typeof job.salary === 'string' &&
\* job.salary.includes('$'))
jobsWithSalary(J) ==
    LET has(j) == jobs[j].salary # <<>> /\ includesDollar(jobs[j].salary)
    IN  SelectSeq(J, has)

\* the number a salary string contributes, doubled (a midpoint may be a half):
\* the mean of the first two runs, or the only run, or 0
salaryNumber2(str) ==
    LET numbers == match(str, <<>>, <<>>)
    IN  IF Len(numbers) >= 2 THEN parseInt(numbers[1]) + parseInt(numbers[2])
        ELSE IF Len(numbers) = 1 THEN 2 * parseInt(numbers[1])
        ELSE 0

\* averageSalary: Math.round of the mean of the numbers > 0, or 0 (reported
\* as 'N/A')
averageSalary(J) ==
    LET W == jobsWithSalary(J)
        all == [k \in 1..Len(W) |-> salaryNumber2(jobs[W[k]].salary)]
        positive(v) == v > 0
        salaryNumbers2 == SelectSeq(all, positive)
    IN  IF Len(salaryNumbers2) > 0
        THEN Round(SumSeq(salaryNumbers2), 2 * Len(salaryNumbers2))
        ELSE 0

(* ------------------------------ analytics: monthly trend --------------- *)
\* monthlyData: for i = 5 down to 0, the month of the year and the three counts
monthlyData(A, now) ==
    [k \in 1..6 |->
        LET i == 6 - k
            created(a) == /\ apps[a].createdAt >= monthDate(i, now)
                          /\ apps[a].createdAt <= monthEnd(i, now)
            updated(a) == /\ apps[a].updatedAt >= monthDate(i, now)
                          /\ apps[a].updatedAt <= monthEnd(i, now)
            interview(a) == apps[a].status = "interviewing" /\ updated(a)
            offer(a) == apps[a].status = "offer" /\ updated(a)
        IN  [month |-> ((now \div Month) - i) % 12,
             applications |-> Len(SelectSeq(A, created)),
             interviews |-> Len(SelectSeq(A, interview)),
             offers |-> Len(SelectSeq(A, offer))]]

(* ------------------------------ analytics: top companies --------------- *)
\* app.job.company after populate: "" when the job no longer exists
company(a) ==
    IF apps[a].job \in DOMAIN jobs THEN jobs[apps[a].job].company ELSE ""

\* the forEach over the applications that fills companyStats: keys holds the
\* property names in the order they were created
RECURSIVE companyStats(_, _)
companyStats(A, acc) ==
    IF A = <<>> THEN acc
    ELSE LET a == Head(A)
             c == company(a)
             init == [applications |-> 0, interviews |-> 0, offers |-> 0]
             old == IF c \in DOMAIN acc.stats THEN acc.stats[c] ELSE init
             new == [applications |-> old.applications + 1,
                     interviews |-> old.interviews
                         + (IF apps[a].status = "interviewing" THEN 1 ELSE 0),
                     offers |-> old.offers
                         + (IF apps[a].status = "offer" THEN 1 ELSE 0)]
         IN  IF c = "" THEN companyStats(Tail(A), acc)
             ELSE companyStats(Tail(A),
                    [keys |-> IF c \in DOMAIN acc.stats THEN acc.keys
                              ELSE Append(acc.keys, c),
                     stats |-> [n \in DOMAIN acc.stats \cup {c} |->
                                  IF n = c THEN new ELSE acc.stats[n]]])

\* the company names of the model that are canonical array indices, with
\* their numeric value
ArrayIndex == "360" :> 360

\* mutant: the properties are enumerated in reverse order of creation
entriesReversed(keys) ==
    [k \in 1..Len(keys) |-> keys[Len(keys) + 1 - k]]

\* Object.entries: the property names that are array indices first, in
\* ascending numeric order, then the other names in order of creation
entries(keys) ==
    LET isIndex(n) == n \in DOMAIN ArrayIndex
        notIndex(n) == n \notin DOMAIN ArrayIndex
        indexKeys == SelectSeq(keys, isIndex)
        values == SortedIds({ArrayIndex[indexKeys[k]] : k \in 1..Len(indexKeys)})
        name(v) == CHOOSE n \in DOMAIN ArrayIndex : ArrayIndex[n] = v
    IN  [k \in 1..Len(values) |-> name(values[k])] \o SelectSeq(keys, notIndex)

\* array.sort((a, b) => b.applications - a.applications): stable, descending
RECURSIVE sortByApplications(_)
sortByApplications(q) ==
    IF q = <<>> THEN <<>>
    ELSE LET rest == sortByApplications(SubSeq(q, 1, Len(q) - 1))
             x == q[Len(q)]
             notLess(e) == e.applications >= x.applications
             less(e) == e.applications < x.applications
         IN  SelectSeq(rest, notLess) \o <<x>> \o SelectSeq(rest, less)

\* topCompanies
topCompanies(A) ==
    LET cs == companyStats(A, [keys |-> <<>>, stats |-> <<>>])
        names == entries(cs.keys)
        mapped == [k \in 1..Len(names) |->
                     LET st == cs.stats[names[k]]
                     IN  [name |-> names[k],
                          applications |-> st.applications,
                          interviews |-> st.interviews,
                          offers |-> st.offers,
                          successRate |-> rate(st.offers, st.applications)]]
        sorted == sortByApplications(mapped)
    IN  SubSeq(sorted, 1, IF Len(sorted) < 5 THEN Len(sorted) ELSE 5)

(* ------------------------------ analytics controller ------------------- *)
\* the data computed from the array A of applications and the array J of
\* jobs that the two queries returned
summary(A, J, now) ==
    LET totalApplications == Len(A)
    IN  [metrics |->
            [totalApplications |-> totalApplications,
             interviewRate |-> rate(statusCount(A, "interviewing"), totalApplications),
             offerRate |-> rate(statusCount(A, "offer"), totalApplications),
             averageResponseTime |-> averageResponseTime(A),
             averageSalary |-> averageSalary(J)],
         statusDistribution |-> statusDistribution(A),
         monthlyData |-> monthlyData(A, now),
         topCompanies |-> topCompanies(A)]

\* the data of the response
analytics(u, range, now) ==
    summary(applications(u, range, now), postedJobs(u, range, now), now)

\* GET /api/analytics?range=: reads only
getAnalytics(u, range) ==
    /\ last' = [req |-> Req("getAnalytics", u, 0, NoJob, NoStatus),
                code |-> 200, error |-> "",
                range |-> range,
                data |-> analytics(u, range, clock)]
    /\ UNCHANGED <<apps, jobs, nextApp, nextJob, clock, ever, calls>>

(* ------------------------------ specification -------------------------- *)
Next ==
    \/ \E t \in Nows : \E u \in Users : createJob(u, t)
    \/ \E t \in Nows : \E u \in Users, j \in JobIds : deleteJob(u, j, t)
    \/ \E t \in Nows : \E u \in Users, j \in JobIds \cup {NoJob}, s \in ReqStatuses :
           trackerCreateApplication(u, j, s, t)
    \/ \E t \in Nows : \E u \in Users, id \in AppIds, s \in ReqStatuses :
           updateApplicationStatus(u, id, s, t)
    \/ \E t \in Nows : \E u \in Users, id \in AppIds :
           trackerDeleteApplication(u, id, t)
    \/ \E t \in Nows : \E u \in Users, j \in JobIds \cup {NoJob}, s \in ReqStatuses :
           createApplication(u, j, s, t)
    \/ \E t \in Nows : \E u \in Users, id \in AppIds, s \in ReqStatuses :
           updateApplication(u, id, s, t)
    \/ \E t \in Nows : \E u \in Users, id \in AppIds :
           deleteApplication(u, id, t)
    \/ \E t \in Nows : \E u \in Users : getApplications(u, t)

Spec == Init /\ [][Next]_vars

(* ------------------------------ analytics specification ---------------- *)
\* The aggregation is a function of the two collections and of the time of
\* the request.  Its specification starts from collections drawn from
\* bounded families, each family varying the fields one part of the summary
\* reads, and applies getAnalytics for every user and range.
MaxStatusApps == 3    \* applications whose owner and status vary
MaxDatedApps == 3     \* applications whose appliedDate/responseDate vary
MaxSalaryJobs == 2    \* jobs whose salary string varies
MaxCompanyApps == 5   \* applications whose job (company) varies
MaxCompanies == 6     \* companies applied to once or twice each
MaxMonthApps == 1     \* applications whose createdAt/updatedAt vary
MaxJoinApps == 2      \* applications to jobs whose poster and salary vary

\* noon on the 11th of the fourth month of a year, and noon on the last day
\* of that month
Today == 2 * Year + 3 * Month + 10 * Day + 1
LastDay == 2 * Year + 3 * Month + (DaysPerMonth - 1) * Day + 1

\* Job.salary strings
SalaryRange == <<"$", "1", "0", "0", ",", "0", "0", "0", " ", "-", " ", "$", "1", "2", "0", ",", "0", "0", "0">>
SalarySingle == <<"$", "9", "0", ",", "0", "0", "0">>
SalaryPlainRange == <<"$", "8", "0", "0", "0", "0", " ", "-", " ", "$", "1", "0", "0", "0", "0", "0">>
SalaryPlain == <<"$", "9", "5", "0", "0", "0">>
SalaryWords == <<"C", "o", "m", "p", "e", "t", "i", "t", "i", "v", "e">>
Salaries == {SalaryRange, SalarySingle, SalaryPlainRange, SalaryPlain,
             SalaryWords, <<>>}

\* Job.company strings
CompanyNames == <<"Acme", "Globex", "360", "Initech", "Hooli", "Umbrella", "Stark">>

\* the _id of a job that has been deleted
GoneJob == 100

\* a Job document posted by u1 the day before, and an Application document
\* created the day before
JobDoc(c, sal, now) ==
    [postedBy |-> "u1", company |-> c, salary |-> sal, createdAt |-> now - Day]
AppDoc(u, j, st, ad, rd, ca, ua) ==
    [user |-> u, job |-> j, status |-> st, appliedDate |-> ad,
     responseDate |-> rd, createdAt |-> ca, updatedAt |-> ua] @@ Unnamed

\* the Job collection with one job per company
CompanyJobs(n, now) == [j \in 1..n |-> JobDoc(CompanyNames[j], <<>>, now)]

\* sequences of at most n elements of S
UpTo(n, S) == UNION {[1..k -> S] : k \in 0..n}

\* owner and status vary
StatusFamily ==
    /\ clock = Today
    /\ jobs = CompanyJobs(1, Today)
    /\ apps \in UpTo(MaxStatusApps,
            {AppDoc(u, 1, st, NoDate, NoDate, Today - Day, Today - Day) :
                u \in Users, st \in validStatuses})

\* the two dates vary: applied three days ago or never, answered two days
\* ago, half a day ago, four days ago (before it was applied) or never
DatedFamily ==
    /\ clock = Today
    /\ jobs = CompanyJobs(1, Today)
    /\ apps \in UpTo(MaxDatedApps,
            {AppDoc("u1", 1, "offer", ad, rd, Today - 5 * Day, Today - Day) :
                ad \in {NoDate, Today - 3 * Day},
                rd \in {NoDate, Today - 2 * Day, Today - 1, Today - 4 * Day}})

\* the salary strings vary
SalaryFamily ==
    /\ clock = Today
    /\ apps = <<>>
    /\ jobs \in UpTo(MaxSalaryJobs, {JobDoc("Acme", sal, Today) : sal \in Salaries})

\* the company of each application varies (one of three, or a deleted job),
\* and the first application is in 'applied' or in 'offer'
CompanyFamily ==
    /\ clock = Today
    /\ jobs = CompanyJobs(3, Today)
    /\ \E js \in UpTo(MaxCompanyApps, {1, 2, 3, GoneJob}), first \in {"applied", "offer"} :
          apps = [k \in DOMAIN js |->
                    AppDoc("u1", js[k], IF k = 1 THEN first ELSE "applied",
                           NoDate, NoDate, Today - Day, Today - Day)]

\* one application to each company, then a second one to some of them
ManyCompaniesFamily ==
    /\ clock = Today
    /\ jobs = CompanyJobs(MaxCompanies, Today)
    /\ \E twice \in SUBSET (1..MaxCompanies) :
          apps = [k \in 1..(MaxCompanies + Cardinality(twice)) |->
                    AppDoc("u1",
                           IF k <= MaxCompanies THEN k
                           ELSE SortedIds(twice)[k - MaxCompanies],
                           "applied", NoDate, NoDate, Today - Day, Today - Day)]

\* the instants of creation and update vary around the month boundaries
MonthInstants(now) ==
    {now - Day,                         \* yesterday
     monthDate(0, now),                 \* first instant of this month
     monthDate(0, now) - 1,             \* noon of the last day of last month
     monthDate(0, now) - Day,           \* midnight of that day
     monthDate(5, now),                 \* first instant of the oldest month
     monthDate(5, now) - 1}             \* the instant before it
MonthFamily ==
    /\ clock \in {Today, LastDay}
    /\ jobs = CompanyJobs(1, clock)
    /\ apps \in UpTo(MaxMonthApps,
            {AppDoc("u1", 1, st, NoDate, NoDate, ca, IF updated THEN clock ELSE ca) :
                st \in {"applied", "interviewing", "offer"},
                ca \in MonthInstants(clock),
                updated \in BOOLEAN})

\* two jobs whose poster and salary vary, and applications of either user
\* to either job
JoinFamily ==
    /\ clock = Today
    /\ \E p1, p2 \in Users, s1, s2 \in {SalaryPlain, SalaryPlainRange} :
          jobs = <<[JobDoc("Acme", s1, Today) EXCEPT !.postedBy = p1],
                   [JobDoc("Globex", s2, Today) EXCEPT !.postedBy = p2]>>
    /\ apps \in UpTo(MaxJoinApps,
            {AppDoc(u, j, "applied", NoDate, NoDate, Today - Day, Today - Day) :
                u \in Users, j \in {1, 2}})

AnalyticsInit ==
    /\ \/ StatusFamily
       \/ DatedFamily
       \/ SalaryFamily
       \/ CompanyFamily
       \/ ManyCompaniesFamily
       \/ MonthFamily
       \/ JoinFamily
    /\ nextApp = Len(apps) + 1
    /\ nextJob = Len(jobs) + 1
    /\ ever = [i \in DOMAIN apps |-> Stages(apps[i].status)]
    /\ last = [req |-> Req("none", "u1", 0, NoJob, NoStatus), code |-> 0, error |-> ""]
    /\ calls = <<>>

\* one request is followed from each pair of collections: a response
\* changes nothing that a later request reads
AnalyticsNext ==
    /\ last.code = 0
    /\ \E u \in Users, range \in Ranges : getAnalytics(u, range)

Analytics == AnalyticsInit /\ [][AnalyticsNext]_vars

(* ------------------------------ handlers as store steps ---------------- *)
\* Between two awaits a handler runs alone; at each await (a store call) the
\* handlers of other requests may run.  Here every store call of the tracker
\* handlers and of updateApplication is one step of a call in flight, and a
\* store call may fail (the handler then answers 500 through asyncHandler).
\* A call keeps the request, the position of its handler (pc), the document
\* findById returned (doc), the updateData it built (set), the document its
\* write returned, which is the data of its response (data), the status code
\* it answered with (0: none yet) and whether a write of its own has been
\* applied (wrote).
MaxCalls == 2        \* requests in flight
MaxStepTime == 3     \* last value of Date.now()

\* a query that found no document
NoDoc == "null"

Call(op, u, id, j, s, pc) ==
    [op |-> op, user |-> u, id |-> id, job |-> j, status |-> s, pc |-> pc,
     doc |-> NoDoc, set |-> <<>>, data |-> NoDoc, code |-> 0, wrote |-> FALSE]

\* the handler of call c returns with a status code
Done(c, code) ==
    calls' = [calls EXCEPT ![c].pc = "done", ![c].code = code]

\* the keys of the tracker's updateData, built from the document that
\* findById returned
updateDataFields(cur, s, t) ==
    [status |-> s, updatedAt |-> t]
        @@ (IF StampsApplied(cur.status, s) THEN [appliedDate |-> t] ELSE <<>>)
        @@ (IF StampsResponse(cur.status, s) THEN [responseDate |-> t] ELSE <<>>)

\* mutant: the update document names the two dates as well, unset
statusUpdateFieldsClearing(s, t) ==
    [status |-> s, updatedAt |-> t, appliedDate |-> NoDate, responseDate |-> NoDate]

\* the keys of { status, updatedAt: Date.now() } of updateApplication (a key
\* whose value is undefined is stripped)
statusUpdateFields(s, t) ==
    IF s = NoStatus THEN [updatedAt |-> t] ELSE [status |-> s, updatedAt |-> t]

\* mutant: a date that is already set is not overwritten
MergeKeepingDates(doc, set) ==
    [f \in DOMAIN doc |->
        IF f \in DOMAIN set
              /\ ~(f \in {"appliedDate", "responseDate"} /\ doc[f] # NoDate)
        THEN set[f] ELSE doc[f]]

\* findByIdAndUpdate: the named paths are set on the stored document, the
\* other paths are left as they are
Merge(doc, set) ==
    [f \in DOMAIN doc |-> IF f \in DOMAIN set THEN set[f] ELSE doc[f]]

\* Date.now() of a step
StepNows == {t \in {clock, clock + 1} : t <= MaxStepTime}

\* updateApplicationStatus up to the return of findById: status check,
\* findById, ownership check, updateData
updateApplicationStatusFind(c, ok, t) ==
    /\ calls[c].op = "trackerUpdate" /\ calls[c].pc = "findById"
    /\ clock' = t
    /\ IF calls[c].status \notin validStatuses THEN Done(c, 400)
       ELSE IF ~ok THEN Done(c, 500)
       ELSE IF calls[c].id \notin DOMAIN apps THEN Done(c, 404)
       ELSE IF NotOwner(apps[calls[c].id], calls[c].user) THEN Done(c, 403)
       ELSE calls' = [calls EXCEPT
                ![c].pc = "findByIdAndUpdate",
                ![c].doc = apps[calls[c].id],
                ![c].set = updateDataFields(apps[calls[c].id], calls[c].status, t)]
    /\ UNCHANGED <<apps, jobs, nextApp, nextJob, ever, last>>

\* updateApplicationStatus: findByIdAndUpdate, which writes nothing and
\* returns null when the document is gone
updateApplicationStatusWrite(c, ok) ==
    /\ calls[c].op = "trackerUpdate" /\ calls[c].pc = "findByIdAndUpdate"
    /\ IF ~ok
       THEN Done(c, 500) /\ UNCHANGED <<apps, ever>>
       ELSE IF calls[c].id \in DOMAIN apps
       THEN /\ Update(calls[c].id, Merge(apps[calls[c].id], calls[c].set))
            /\ calls' = [calls EXCEPT
                  ![c].pc = "populate",
                  ![c].data = Merge(apps[calls[c].id], calls[c].set),
                  ![c].wrote = TRUE]
       ELSE /\ calls' = [calls EXCEPT ![c].pc = "populate", ![c].data = NoDoc]
            /\ UNCHANGED <<apps, ever>>
    /\ UNCHANGED <<jobs, nextApp, nextJob, clock, last>>

\* updateApplicationStatus: populate('job', ...) and the response
updateApplicationStatusPopulate(c, ok) ==
    /\ calls[c].op = "trackerUpdate" /\ calls[c].pc = "populate"
    /\ Done(c, IF ok THEN 200 ELSE 500)
    /\ UNCHANGED <<apps, jobs, nextApp, nextJob, clock, ever, last>>

\* updateApplication up to the return of findById
updateApplicationFind(c, ok, t) ==
    /\ calls[c].op = "appUpdate" /\ calls[c].pc = "findById"
    /\ clock' = t
    /\ IF ~ok THEN Done(c, 500)
       ELSE IF calls[c].id \notin DOMAIN apps THEN Done(c, 404)
       ELSE IF NotOwner(apps[calls[c].id], calls[c].user) THEN Done(c, 403)
       ELSE calls' = [calls EXCEPT
                ![c].pc = "findByIdAndUpdate",
                ![c].doc = apps[calls[c].id],
                ![c].set = statusUpdateFields(calls[c].status, t)]
    /\ UNCHANGED <<apps, jobs, nextApp, nextJob, ever, last>>

\* updateApplication: findByIdAndUpdate with runValidators, and the response
updateApplicationWrite(c, ok) ==
    /\ calls[c].op = "appUpdate" /\ calls[c].pc = "findByIdAndUpdate"
    /\ IF ~ok
       THEN Done(c, 500) /\ UNCHANGED <<apps, ever>>
       ELSE IF ~StatusValidates(calls[c].status)
       THEN Done(c, 400) /\ UNCHANGED <<apps, ever>>
       ELSE IF calls[c].id \in DOMAIN apps
       THEN /\ Update(calls[c].id, Merge(apps[calls[c].id], calls[c].set))
            /\ calls' = [calls EXCEPT
                  ![c].pc = "done", ![c].code = 200,
                  ![c].data = Merge(apps[calls[c].id], calls[c].set),
                  ![c].wrote = TRUE]
       ELSE /\ calls' = [calls EXCEPT
                  ![c].pc = "done", ![c].code = 200, ![c].data = NoDoc]
            /\ UNCHANGED <<apps, ever>>
    /\ UNCHANGED <<jobs, nextApp, nextJob, clock, last>>

\* the tracker's createApplication up to the return of Job.findById
trackerCreateFindJob(c, ok) ==
    /\ calls[c].op = "trackerCreate" /\ calls[c].pc = "Job.findById"
    /\ IF calls[c].job = NoJob THEN Done(c, 400)
       ELSE IF ~ok THEN Done(c, 500)
       ELSE IF calls[c].job \notin DOMAIN jobs THEN Done(c, 404)
       ELSE calls' = [calls EXCEPT ![c].pc = "findOne"]
    /\ UNCHANGED <<apps, jobs, nextApp, nextJob, clock, ever, last>>

\* the tracker's createApplication: the existence check
trackerCreateFindOne(c, ok) ==
    /\ calls[c].op = "trackerCreate" /\ calls[c].pc = "findOne"
    /\ IF ~ok THEN Done(c, 500)
       ELSE IF existingApplication(calls[c].user, calls[c].job) THEN Done(c, 400)
       ELSE calls' = [calls EXCEPT ![c].pc = "create"]
    /\ UNCHANGED <<apps, jobs, nextApp, nextJob, clock, ever, last>>

\* the tracker's createApplication: Application.create
trackerCreateInsert(c, ok, t) ==
    /\ calls[c].op = "trackerCreate" /\ calls[c].pc = "create"
    /\ clock' = t
    /\ IF ~ok
       THEN Done(c, 500) /\ UNCHANGED <<apps, ever, nextApp>>
       ELSE IF ~StatusValidates(calls[c].status)
       THEN Done(c, 400) /\ UNCHANGED <<apps, ever, nextApp>>
       ELSE /\ Insert(NewApplication(calls[c].user, calls[c].job, calls[c].status, t))
            /\ calls' = [calls EXCEPT
                  ![c].pc = "populate",
                  ![c].id = nextApp,
                  ![c].data = NewApplication(calls[c].user, calls[c].job,
                                             calls[c].status, t),
                  ![c].wrote = TRUE]
    /\ UNCHANGED <<jobs, nextJob, last>>

\* the tracker's createApplication: application.populate and the response
trackerCreatePopulate(c, ok) ==
    /\ calls[c].op = "trackerCreate" /\ calls[c].pc = "populate"
    /\ Done(c, IF ok THEN 201 ELSE 500)
    /\ UNCHANGED <<apps, jobs, nextApp, nextJob, clock, ever, last>>

\* the tracker's deleteApplication up to the return of findById
trackerDeleteFind(c, ok) ==
    /\ calls[c].op = "trackerDelete" /\ calls[c].pc = "findById"
    /\ IF ~ok THEN Done(c, 500)
       ELSE IF calls[c].id \notin DOMAIN apps THEN Done(c, 404)
       ELSE IF NotOwner(apps[calls[c].id], calls[c].user) THEN Done(c, 403)
       ELSE calls' = [calls EXCEPT ![c].pc = "remove", ![c].doc = apps[calls[c].id]]
    /\ UNCHANGED <<apps, jobs, nextApp, nextJob, clock, ever, last>>

\* the tracker's deleteApplication: application.remove() and the response
trackerDeleteRemove(c, ok) ==
    /\ calls[c].op = "trackerDelete" /\ calls[c].pc = "remove"
    /\ IF ~ok
       THEN Done(c, 500) /\ UNCHANGED <<apps, ever>>
       ELSE /\ Remove(calls[c].id)
            /\ calls' = [calls EXCEPT
                  ![c].pc = "done", ![c].code = 200,
                  ![c].wrote = calls[c].id \in DOMAIN apps]
    /\ UNCHANGED <<jobs, nextApp, nextJob, clock, last>>

\* the requests that are put in flight
StepRequests ==
    {Call("trackerUpdate", "u1", 1, NoJob, s, "findById") :
        s \in validStatuses \cup {BadStatus}}
    \cup {Call("trackerUpdate", "u2", 1, NoJob, "applied", "findById")}
    \cup {Call("appUpdate", "u1", 1, NoJob, s, "findById") :
        s \in {"saved", "applied", "offer", NoStatus, BadStatus}}
    \cup {Call("trackerCreate", "u1", 0, j, s, "Job.findById") :
        j \in {1, 2}, s \in {NoStatus, "applied", BadStatus}}
    \cup {Call("trackerDelete", u, 1, NoJob, NoStatus, "findById") : u \in Users}

\* the documents a stored record of u1 for job 1 can be: created, then moved
\* to 'applied', then to 'offer', all at time 1
SavedDoc == NewApplication("u1", 1, NoStatus, 1)
AppliedDoc == updateData(SavedDoc, "applied", 1)
OfferDoc == updateData(AppliedDoc, "offer", 1)

\* one job, at most one stored record, MaxCalls requests about to start
StepsInit ==
    /\ jobs = <<[postedBy |-> "u1"]>>
    /\ nextJob = 2
    /\ apps \in {<<>>, <<SavedDoc>>, <<AppliedDoc>>, <<OfferDoc>>}
    /\ nextApp = Len(apps) + 1
    /\ ever = [i \in DOMAIN apps |-> Stages(apps[i].status)]
    /\ clock = 1
    /\ last = [req |-> Req("none", "u1", 0, NoJob, NoStatus), code |-> 0, error |-> ""]
    /\ calls \in [1..MaxCalls -> StepRequests]

StepsNext ==
    \/ \E c \in DOMAIN calls, ok \in BOOLEAN, t \in StepNows :
           updateApplicationStatusFind(c, ok, t)
    \/ \E c \in DOMAIN calls, ok \in BOOLEAN : updateApplicationStatusWrite(c, ok)
    \/ \E c \in DOMAIN calls, ok \in BOOLEAN : updateApplicationStatusPopulate(c, ok)
    \/ \E c \in DOMAIN calls, ok \in BOOLEAN, t \in StepNows :
           updateApplicationFind(c, ok, t)
    \/ \E c \in DOMAIN calls, ok \in BOOLEAN : updateApplicationWrite(c, ok)
    \/ \E c \in DOMAIN calls, ok \in BOOLEAN : trackerCreateFindJob(c, ok)
    \/ \E c \in DOMAIN calls, ok \in BOOLEAN : trackerCreateFindOne(c, ok)
    \/ \E c \in DOMAIN calls, ok \in BOOLEAN, t \in StepNows :
           trackerCreateInsert(c, ok, t)
    \/ \E c \in DOMAIN calls, ok \in BOOLEAN : trackerCreatePopulate(c, ok)
    \/ \E c \in DOMAIN calls, ok \in BOOLEAN : trackerDeleteFind(c, ok)
    \/ \E c \in DOMAIN calls, ok \in BOOLEAN : trackerDeleteRemove(c, ok)

Steps == StepsInit /\ [][StepsNext]_vars

(* ------------------------------ claims --------------------------------- *)
\* the step is the answer to a request of handler op
Handled(op) == last'.req.op = op

\* the step is a tracker updateStatus answered 200 on document id
TrackerUpdated(id) ==
    /\ Handled("trackerUpdate")
    /\ last'.code = 200
    /\ last'.req.id = id

\* u owns the stored document id
Owns(u, id) == id \in DOMAIN apps /\ apps[id].user = u

\* C1: over successful tracker updateStatus calls on one record, appliedDate
\* is stamped at the first transition into 'applied' and keeps that value in
\* every later state, also when the status leaves 'applied' and re-enters it
C1_AppliedDateSetOnce ==
    [][\A id \in DOMAIN apps :
          TrackerUpdated(id) =>
              /\ (/\ apps[id].appliedDate = NoDate
                  /\ apps[id].status # "applied"
                  /\ last'.req.status = "applied")
                     => apps'[id].appliedDate = clock'
              /\ apps[id].appliedDate # NoDate
                     => apps'[id].appliedDate = apps[id].appliedDate]_vars

\* C2: over successful tracker updateStatus calls on one record, responseDate
\* is stamped at the first transition into 'offer' or 'rejected' and keeps
\* that value in every later state, also when the status leaves offer/rejected
\* and enters one of them again
C2_ResponseDateSetOnce ==
    [][\A id \in DOMAIN apps :
          TrackerUpdated(id) =>
              /\ (/\ apps[id].responseDate = NoDate
                  /\ apps[id].status \notin Responses
                  /\ last'.req.status \in Responses)
                     => apps'[id].responseDate = clock'
              /\ apps[id].responseDate # NoDate
                     => apps'[id].responseDate = apps[id].responseDate]_vars

\* C3: a stored record has appliedDate set if and only if its status has at
\* some point been 'applied' or a later stage (interviewing, offer, rejected)
C3_AppliedDateIffReached ==
    \A id \in DOMAIN apps :
        apps[id].appliedDate # NoDate <=> "appliedOrLater" \in ever[id]

\* C4: a stored record has responseDate set if and only if its status has at
\* some point been 'offer' or 'rejected'
C4_ResponseDateIffReached ==
    \A id \in DOMAIN apps :
        apps[id].responseDate # NoDate <=> "response" \in ever[id]

\* C5: at most one stored record for each (userId, jobId) pair
C5_OneRecordPerPair ==
    \A i, k \in DOMAIN apps :
        (apps[i].user = apps[k].user /\ apps[i].job = apps[k].job) => i = k

\* C6 as stated: a tracker create for a pair that already has a record is
\* answered 400 'Application for this job already exists' and leaves the
\* store unchanged
C6_DuplicateAlwaysConflict ==
    [][(Handled("trackerCreate")
          /\ findOne(last'.req.user, last'.req.job) # {})
            => /\ last'.code = 400
               /\ last'.error = "Application for this job already exists"
               /\ apps' = apps]_vars

\* C6 amended: a tracker create for a pair that already has a record leaves
\* the store unchanged; it is answered 400 'Application for this job already
\* exists' when the job still resolves and 404 'Job not found' when the job
\* has been deleted
C6_DuplicateRejected ==
    [][(Handled("trackerCreate")
          /\ findOne(last'.req.user, last'.req.job) # {})
            => /\ apps' = apps
               /\ last'.req.job \in DOMAIN jobs
                    => /\ last'.code = 400
                       /\ last'.error = "Application for this job already exists"
               /\ last'.req.job \notin DOMAIN jobs
                    => /\ last'.code = 404
                       /\ last'.error = "Job not found"]_vars

\* C6 witness: a duplicate tracker create for a resolvable job was rejected
\* while the first record of the pair is stored
C6_Witness ==
    /\ last.req.op = "trackerCreate"
    /\ last.req.job \in DOMAIN jobs
    /\ findOne(last.req.user, last.req.job) # {}
    /\ last.code = 400

\* the requests that address a stored document by its id
ById == {"trackerUpdate", "trackerDelete", "appUpdate", "appDelete"}

\* the status of the request is one the contract of updateStatus admits
StatusInContract ==
    Handled("trackerUpdate") => last'.req.status \in validStatuses

C8_StatusAlwaysValid ==
    [][/\ \A id \in DOMAIN apps' : apps'[id].status \in validStatuses
       /\ (\/ last'.req.op \in {"trackerCreate", "appCreate"}
                /\ last'.req.status = BadStatus
           \/ last'.req.op \in {"trackerUpdate", "appUpdate"}
                /\ last'.req.status \notin validStatuses)
             => /\ last'.code \in {400, 403, 404}
                /\ apps' = apps]_vars

\* C9: for a stored record and its owner, a tracker updateStatus with any of
\* the five statuses is answered 200 from any current status, and the stored
\* status afterwards is the requested one
C9_AnyTransitionAccepted ==
    [][(/\ Handled("trackerUpdate")
        /\ last'.req.status \in validStatuses
        /\ Owns(last'.req.user, last'.req.id))
            => /\ last'.code = 200
               /\ last'.req.id \in DOMAIN apps'
               /\ apps'[last'.req.id].status = last'.req.status]_vars

\* C9 witness: the owner moved a record that has been in 'offer' or
\* 'rejected' back to 'saved'
C9_Witness ==
    /\ last.req.op = "trackerUpdate"
    /\ last.code = 200
    /\ last.req.status = "saved"
    /\ last.req.id \in DOMAIN apps
    /\ apps[last.req.id].status = "saved"
    /\ "response" \in ever[last.req.id]

\* C10: a tracker create with a jobId that does not resolve is answered 404
\* 'Job not found' and adds no record; with a resolvable job and no record
\* for the pair it adds exactly one record, of the caller, for that job, with
\* the supplied status, or 'saved' when none is supplied
C10_TrackerCreate ==
    [][Handled("trackerCreate") =>
          /\ (last'.req.job # NoJob /\ last'.req.job \notin DOMAIN jobs)
                => /\ last'.code = 404
                   /\ last'.error = "Job not found"
                   /\ apps' = apps
          /\ (/\ last'.req.job \in DOMAIN jobs
              /\ findOne(last'.req.user, last'.req.job) = {}
              /\ last'.req.status \in validStatuses \cup {NoStatus})
                => /\ last'.code = 201
                   /\ \E id \in DOMAIN apps' \ DOMAIN apps :
                        /\ DOMAIN apps' = DOMAIN apps \cup {id}
                        /\ apps'[id].user = last'.req.user
                        /\ apps'[id].job = last'.req.job
                        /\ apps'[id].status =
                              IF last'.req.status = NoStatus
                              THEN "saved" ELSE last'.req.status
                   /\ \A id \in DOMAIN apps : apps'[id] = apps[id]]_vars

\* C10 witness: a tracker create without a status stored a 'saved' record of
\* the caller
C10_Witness ==
    /\ last.req.op = "trackerCreate"
    /\ last.code = 201
    /\ last.req.status = NoStatus
    /\ \E id \in DOMAIN apps :
          /\ apps[id].user = last.req.user
          /\ apps[id].job = last.req.job
          /\ apps[id].status = "saved"
          /\ apps[id].createdAt = clock

\* the five buckets of a list response
Buckets(d) == {d[st] : st \in validStatuses}

\* C11: the list of a user returns exactly the records that user owns, each
\* in exactly one of the five buckets, the one named by its current status,
\* and the bucket sizes sum to the number of records the user owns
C11_ListPartitionsOwned ==
    [][Handled("trackerList") =>
          LET d == last'.data
              owned == {i \in DOMAIN apps : apps[i].user = last'.req.user}
          IN  /\ last'.code = 200
              /\ DOMAIN d = validStatuses
              /\ UNION Buckets(d) = owned
              /\ \A st \in validStatuses : \A i \in d[st] : apps[i].status = st
              /\ \A st1, st2 \in validStatuses :
                     st1 # st2 => d[st1] \cap d[st2] = {}
              /\ Cardinality(d["saved"]) + Cardinality(d["applied"])
                     + Cardinality(d["interviewing"]) + Cardinality(d["offer"])
                     + Cardinality(d["rejected"]) = Cardinality(owned)
              /\ apps' = apps]_vars

\* C11 witness: a list was answered with one record of the caller in the
\* 'offer' bucket while another user's record is stored
C11_Witness ==
    /\ last.req.op = "trackerList"
    /\ Cardinality(last.data["offer"]) = 1
    /\ \E i \in DOMAIN apps : apps[i].user # last.req.user
    /\ \E i \in DOMAIN apps : apps[i].user = last.req.user

\* the id was given to a record that is no longer stored
Deleted(id) == id \in 1..(nextApp - 1) /\ id \notin DOMAIN apps

C19_UpdatedAtOnEveryUpdate ==
    [][last'.req.op \in {"trackerUpdate", "appUpdate"} =>
          /\ last'.code = 200
                => /\ last'.req.id \in DOMAIN apps'
                   /\ apps'[last'.req.id].updatedAt = clock'
          /\ last'.code # 200
                => /\ last'.code \in {400, 403, 404}
                   /\ apps' = apps]_vars

\* C19 witness: an updateStatus to 'saved' on a record that has never left
\* 'saved' was answered 200 and moved updatedAt past createdAt
C19_Witness ==
    /\ last.req.op \in {"trackerUpdate", "appUpdate"}
    /\ last.code = 200
    /\ last.req.status = "saved"
    /\ last.req.id \in DOMAIN apps
    /\ ever[last.req.id] = {}
    /\ apps[last.req.id].createdAt < clock
    /\ apps[last.req.id].updatedAt = clock

\* C20: a tracker updateStatus to 'saved' or 'interviewing' answered 200
\* leaves appliedDate and responseDate of the record as they were, set or
\* unset, from every current status, and sets updatedAt to the time of the call
C20_DatesKeptOnSavedInterviewing ==
    [][\A id \in DOMAIN apps :
          (TrackerUpdated(id) /\ last'.req.status \in {"saved", "interviewing"})
              => /\ apps'[id].appliedDate = apps[id].appliedDate
                 /\ apps'[id].responseDate = apps[id].responseDate
                 /\ apps'[id].updatedAt = clock']_vars

\* C20 witness: a record with both dates set was moved to 'interviewing' at
\* a later time and kept both dates
C20_Witness ==
    /\ last.req.op = "trackerUpdate"
    /\ last.code = 200
    /\ last.req.status = "interviewing"
    /\ last.req.id \in DOMAIN apps
    /\ apps[last.req.id].appliedDate = 1
    /\ apps[last.req.id].responseDate = 1
    /\ apps[last.req.id].updatedAt = 2

(* ------------------------------ claims on the analytics summary -------- *)
\* the state holds the response to an analytics request
Asked == last.req.op = "getAnalytics"

\* the windowed records of the request: those of the caller created at or
\* after the start of the window
Windowed ==
    {i \in DOMAIN apps :
        /\ apps[i].user = last.req.user
        /\ apps[i].createdAt >= startDate(last.range, clock)}

\* the windowed records currently in a status
InStatus(st) == {i \in Windowed : apps[i].status = st}

\* r is an integer nearest to n / d (d > 0)
Nearest(r, n, d) == 2 * (n - r * d) <= d /\ 2 * (r * d - n) <= d

\* C13: interviewRate and offerRate are 0 when there is no windowed record,
\* and otherwise the integer nearest to 100 * (records currently in
\* 'interviewing', resp. 'offer') / (windowed records)
C13_RatesRounded ==
    Asked =>
        LET total == Cardinality(Windowed)
            m == last.data.metrics
        IN  /\ total = 0 => m.interviewRate = 0 /\ m.offerRate = 0
            /\ total > 0 =>
                  /\ Nearest(m.interviewRate,
                             100 * Cardinality(InStatus("interviewing")), total)
                  /\ Nearest(m.offerRate,
                             100 * Cardinality(InStatus("offer")), total)

\* C13 witness: of three windowed records two are in 'interviewing' and one
\* in 'offer': the rates are 67 and 33
C13_Witness ==
    /\ Asked
    /\ Cardinality(Windowed) = 3
    /\ Cardinality(InStatus("interviewing")) = 2
    /\ last.data.metrics.interviewRate = 67
    /\ last.data.metrics.offerRate = 33

\* the windowed records with both dates set
BothDates ==
    {i \in Windowed : apps[i].appliedDate # NoDate /\ apps[i].responseDate # NoDate}

\* the sum of responseDate - appliedDate over a set of records, in instants
RECURSIVE ResponseSum(_)
ResponseSum(S) ==
    IF S = {} THEN 0
    ELSE LET i == CHOOSE x \in S : TRUE
         IN  apps[i].responseDate - apps[i].appliedDate + ResponseSum(S \ {i})

\* C14: the average response time is 0 when no windowed record has both
\* dates, and otherwise the mean of responseDate - appliedDate, in days to
\* one decimal, over exactly the windowed records with both dates: a record
\* with a responseDate and no appliedDate adds to neither sum nor divisor
C14_ResponseTimeOverBothDates ==
    Asked =>
        LET avg == last.data.metrics.averageResponseTime
        IN  /\ BothDates = {} => avg = 0
            /\ BothDates # {} =>
                  Nearest(avg, 10 * ResponseSum(BothDates),
                          Cardinality(BothDates) * Day)

\* C14 witness: one windowed record answered a day after it was applied,
\* another with a responseDate and no appliedDate: the average is 1.0 days
C14_Witness ==
    /\ Asked
    /\ Cardinality(BothDates) = 1
    /\ \E i \in Windowed :
          apps[i].responseDate # NoDate /\ apps[i].appliedDate = NoDate
    /\ last.data.metrics.averageResponseTime = 10

\* the salary strings of the caller's jobs in the window, one per job
PostedSalaries ==
    LET J == {j \in DOMAIN jobs :
                /\ jobs[j].postedBy = last.req.user
                /\ jobs[j].createdAt >= startDate(last.range, clock)}
    IN  [j \in J |-> jobs[j].salary]

\* C15: a range string contributes its midpoint and a single number itself,
\* thousands separators read as part of the number: for two jobs with the
\* salaries "$100,000 - $120,000" and "$90,000" the contributions are 110000
\* and 90000 and the average salary is 100000
C15_ThousandsSeparators ==
    (/\ Asked
     /\ Cardinality(DOMAIN PostedSalaries) = 2
     /\ \E j, k \in DOMAIN PostedSalaries :
           PostedSalaries[j] = SalaryRange /\ PostedSalaries[k] = SalarySingle)
        => /\ salaryNumber2(SalaryRange) = 2 * 110000
           /\ salaryNumber2(SalarySingle) = 2 * 90000
           /\ last.data.metrics.averageSalary = 100000

\* the company of a windowed record whose job still exists
Companies == {company(i) : i \in Windowed} \ {""}
Of(c) == {i \in Windowed : company(i) = c}
FirstOf(c) == CHOOSE i \in Of(c) : \A k \in Of(c) : i <= k

\* C16: topCompanies has one entry for each company up to 5, in
\* non-increasing order of application count; every company left out has a
\* count no larger than every company included; companies with equal counts
\* are in the order in which they were first encountered; successRate is
\* round(100 * offers / applications)
C16_TopCompanies ==
    Asked =>
        LET top == last.data.topCompanies
            names == {top[k].name : k \in 1..Len(top)}
        IN  /\ Len(top) <= 5
            /\ Len(top) = Cardinality(names)
            /\ names \subseteq Companies
            /\ Len(top) < 5 => names = Companies
            /\ \A k \in 1..Len(top) :
                  /\ top[k].applications = Cardinality(Of(top[k].name))
                  /\ top[k].offers
                        = Cardinality(Of(top[k].name) \cap InStatus("offer"))
                  /\ Nearest(top[k].successRate, 100 * top[k].offers,
                             top[k].applications)
                  /\ \A c \in Companies \ names :
                        Cardinality(Of(c)) <= top[k].applications
            /\ \A k, l \in 1..Len(top) :
                  k < l =>
                    /\ top[k].applications >= top[l].applications
                    /\ top[k].applications = top[l].applications
                          => FirstOf(top[k].name) < FirstOf(top[l].name)

\* the calendar month of an instant
MonthOf(t) == t \div Month

\* C17: monthlyData has six entries, for the month of the request and the
\* five before it, oldest first; 'applications' counts the windowed records
\* created at any instant of the month, 'interviews' and 'offers' the
\* windowed records currently in that status and updated in the month
C17_MonthlyData ==
    Asked =>
        LET md == last.data.monthlyData
        IN  /\ Len(md) = 6
            /\ \A k \in 1..6 :
                  LET mth == MonthOf(clock) - (6 - k)
                  IN  /\ md[k].month = mth % 12
                      /\ md[k].applications =
                            Cardinality({i \in Windowed :
                                MonthOf(apps[i].createdAt) = mth})
                      /\ md[k].interviews =
                            Cardinality({i \in InStatus("interviewing") :
                                MonthOf(apps[i].updatedAt) = mth})
                      /\ md[k].offers =
                            Cardinality({i \in InStatus("offer") :
                                MonthOf(apps[i].updatedAt) = mth})

\* C18: the five statusDistribution counts sum to totalApplications, the
\* number of windowed records
C18_DistributionSumsToTotal ==
    Asked =>
        LET sd == last.data.statusDistribution
        IN  /\ DOMAIN sd = validStatuses
            /\ sd["saved"] + sd["applied"] + sd["interviewing"] + sd["offer"]
                  + sd["rejected"] = last.data.metrics.totalApplications
            /\ last.data.metrics.totalApplications = Cardinality(Windowed)
            /\ \A st \in validStatuses : sd[st] = Cardinality(InStatus(st))

\* C18 witness: three windowed records in three different statuses
C18_Witness ==
    /\ Asked
    /\ last.data.metrics.totalApplications = 3
    /\ last.data.statusDistribution["saved"] = 1
    /\ last.data.statusDistribution["rejected"] = 1
    /\ last.data.statusDistribution["offer"] = 1

(* ------------------------------ claims on the order of checks ---------- *)
\* C22: a tracker updateStatus loads the record, checks ownership, then
\* validates the status: a missing id is answered 404 and a caller who is not
\* the owner 403 whatever the requested status, and 400 'Invalid status' is
\* answered only to the owner of a stored record
C22_LoadOwnershipThenStatus ==
    [][Handled("trackerUpdate") =>
          /\ last'.req.id \notin DOMAIN apps => last'.code = 404
          /\ (/\ last'.req.id \in DOMAIN apps
              /\ apps[last'.req.id].user # last'.req.user) => last'.code = 403
          /\ last'.code = 400 => Owns(last'.req.user, last'.req.id)]_vars

\* C29: on every stored record with both dates set, appliedDate is not
\* later than responseDate
C29_AppliedBeforeResponse ==
    \A id \in DOMAIN apps :
        (apps[id].appliedDate # NoDate /\ apps[id].responseDate # NoDate)
            => apps[id].appliedDate <= apps[id].responseDate

(* ------------------------------ claims on the inputs of the summary ---- *)
\* the windowed records of the caller whose joined job yields a number
WithSalary ==
    {i \in Windowed :
        /\ apps[i].job \in DOMAIN jobs
        /\ salaryNumber2(jobs[apps[i].job].salary) > 0}

\* the sum of the numbers (doubled) the joined jobs of a set of records yield
RECURSIVE JoinedSalarySum2(_)
JoinedSalarySum2(S) ==
    IF S = {} THEN 0
    ELSE LET i == CHOOSE x \in S : TRUE
         IN  salaryNumber2(jobs[apps[i].job].salary) + JoinedSalarySum2(S \ {i})

\* C23: the average salary is the rounded mean of the numbers that the jobs
\* joined to the caller's windowed records yield, one per record, whoever
\* posted the job, and 0 (not available) when none yields a number; a job the
\* caller posted and never applied to contributes nothing
C23_SalaryOverJoinedJobs ==
    Asked =>
        /\ WithSalary = {} => last.data.metrics.averageSalary = 0
        /\ WithSalary # {} =>
              Nearest(last.data.metrics.averageSalary,
                      JoinedSalarySum2(WithSalary), 2 * Cardinality(WithSalary))

\* the orderings of a set of _ids
Orderings(S) ==
    {p \in [1..Cardinality(S) -> S] : \A k, l \in DOMAIN p : p[k] = p[l] => k = l}

\* C24: the summary is the same for every order in which the store returns
\* the windowed records, the order of the topCompanies entries included
C24_OrderIndependent ==
    Asked =>
        \A A \in Orderings(Windowed) :
            summary(A, postedJobs(last.req.user, last.range, clock), clock)
                = last.data

(* ------------------------------ claims on the frame of an update ------- *)
\* the paths that updateStatus never names
Frame ==
    {"user", "job", "createdAt", "salary", "notes", "interviewDate",
     "interviewTime", "interviewType", "interviewLocation"}

\* C21: a tracker updateStatus answered 200 leaves the record under its id
\* and changes only its status, its updatedAt and, when it stamps them, its
\* appliedDate/responseDate: owner, job, createdAt, notes, salary and the
\* interview fields are unchanged, and so is every other record
C21_UpdateFrame ==
    [][\A id \in DOMAIN apps :
          TrackerUpdated(id) =>
              /\ DOMAIN apps' = DOMAIN apps
              /\ \A f \in Frame : apps'[id][f] = apps[id][f]
              /\ apps'[id].appliedDate \in {apps[id].appliedDate, clock'}
              /\ apps'[id].responseDate \in {apps[id].responseDate, clock'}
              /\ \A k \in DOMAIN apps \ {id} : apps'[k] = apps[k]]_vars

\* C21 witness: a record was moved to 'applied' and stamped while another
\* user's record for the same job is stored
C21_Witness ==
    /\ last.req.op = "trackerUpdate"
    /\ last.code = 200
    /\ last.req.status = "applied"
    /\ last.req.id \in DOMAIN apps
    /\ apps[last.req.id].appliedDate = clock
    /\ \E k \in DOMAIN apps :
          /\ apps[k].user # last.req.user
          /\ apps[k].job = apps[last.req.id].job

(* ------------------------------ claims on interleaved handlers --------- *)
TrackerOps == {"trackerCreate", "trackerUpdate", "trackerDelete"}

\* C25: a tracker create, updateStatus or delete that answers with an error
\* (500 included) has applied no write of its own to the store
C25_AllOrNothing ==
    \A c \in DOMAIN calls :
        (calls[c].op \in TrackerOps /\ calls[c].code >= 400) => ~calls[c].wrote

\* the step applies the write of tracker updateStatus call c to a stored record
Writes(c) ==
    /\ calls[c].op = "trackerUpdate"
    /\ calls[c].pc = "findByIdAndUpdate"
    /\ calls'[c].pc = "populate"
    /\ calls[c].id \in DOMAIN apps

\* C26: each updateStatus decides its stamps from the status it read, and
\* its write, whenever it is applied, sets status and updatedAt to its own
\* values and each date to its own stamp if it stamps it, leaving the date as
\* it was otherwise: the record ends as the last applied write leaves it, and
\* after the second of two writes each date is the one the first call read,
\* the one the first call wrote or the stamp of the second
C26_LastWriteWins ==
    [][\A c \in DOMAIN calls :
          Writes(c) =>
              LET id == calls[c].id
                  set == calls[c].set
              IN  /\ "appliedDate" \in DOMAIN set
                        <=> StampsApplied(calls[c].doc.status, calls[c].status)
                  /\ "responseDate" \in DOMAIN set
                        <=> StampsResponse(calls[c].doc.status, calls[c].status)
                  /\ apps'[id].status = calls[c].status
                  /\ apps'[id].updatedAt = set.updatedAt
                  /\ apps'[id].appliedDate =
                        IF "appliedDate" \in DOMAIN set
                        THEN set.appliedDate ELSE apps[id].appliedDate
                  /\ apps'[id].responseDate =
                        IF "responseDate" \in DOMAIN set
                        THEN set.responseDate ELSE apps[id].responseDate
                  /\ \A d \in DOMAIN calls \ {c} :
                        (calls[d].op = "trackerUpdate" /\ calls[d].wrote
                           /\ calls[d].id = id)
                            => /\ apps'[id].appliedDate \in
                                    {calls[d].doc.appliedDate,
                                     calls[d].data.appliedDate,
                                     calls[c].set.updatedAt}
                               /\ apps'[id].responseDate \in
                                    {calls[d].doc.responseDate,
                                     calls[d].data.responseDate,
                                     calls[c].set.updatedAt}]_vars

\* C26 witness: two calls read the same status, both stamped appliedDate,
\* and the record holds the earlier stamp, of the call that wrote last
C26_Witness ==
    \E c, d \in DOMAIN calls :
        /\ calls[c].op = "trackerUpdate" /\ calls[d].op = "trackerUpdate"
        /\ calls[c].code = 200 /\ calls[d].code = 200
        /\ calls[c].doc.status = calls[d].doc.status
        /\ "appliedDate" \in DOMAIN calls[c].set
        /\ "appliedDate" \in DOMAIN calls[d].set
        /\ calls[c].set.appliedDate < calls[d].set.appliedDate
        /\ 1 \in DOMAIN apps
        /\ apps[1].appliedDate = calls[c].set.appliedDate
        /\ apps[1].updatedAt = calls[c].set.updatedAt

\* C27: of two interleaved tracker creates for one (userId, jobId) at most
\* one inserts a record, and the store never holds two records for the pair
C27_OneInsertPerPair ==
    /\ \A i, k \in DOMAIN apps :
          (apps[i].user = apps[k].user /\ apps[i].job = apps[k].job /\ i # k)
              => FALSE
    /\ \A c, d \in DOMAIN calls :
          (/\ c # d
           /\ calls[c].op = "trackerCreate" /\ calls[d].op = "trackerCreate"
           /\ calls[c].user = calls[d].user /\ calls[c].job = calls[d].job)
              => ~(calls[c].wrote /\ calls[d].wrote)

\* C28: a date that is set on a stored record is set in the next state too,
\* as long as the record is stored, through every step of interleaved
\* creates, updates of both controllers and deletes
C28_DatesStaySet ==
    [][\A id \in DOMAIN apps \cap DOMAIN apps' :
          /\ apps[id].appliedDate # NoDate => apps'[id].appliedDate # NoDate
          /\ apps[id].responseDate # NoDate => apps'[id].responseDate # NoDate]_vars

\* C28 witness: a record that was stamped is back in 'saved' after writes of
\* updateApplication and of updateApplicationStatus, with its date set
C28_Witness ==
    /\ 1 \in DOMAIN apps
    /\ apps[1].status = "saved"
    /\ apps[1].appliedDate # NoDate
    /\ \E c, d \in DOMAIN calls :
          /\ calls[c].op = "appUpdate" /\ calls[c].code = 200 /\ calls[c].wrote
          /\ calls[d].op = "trackerUpdate" /\ calls[d].code = 200 /\ calls[d].wrote

\* C30: the write of an update never brings a deleted record back; an
\* updateStatus that answers 200 has written and carries the record with the
\* requested status, never null;
\* an updateStatus whose record was removed before its write does not answer
\* success
C30_UpdateAgainstDelete ==
    [][/\ \A id \in 1..(nextApp - 1) :
             id \notin DOMAIN apps => id \notin DOMAIN apps'
       /\ \A c \in DOMAIN calls :
             (calls'[c].op = "trackerUpdate" /\ calls'[c].code = 200)
                 => /\ calls'[c].wrote
                    /\ calls'[c].data.status = calls'[c].status
       /\ \A c \in DOMAIN calls :
             (/\ calls[c].op = "trackerUpdate"
              /\ calls[c].pc = "populate"
              /\ ~calls[c].wrote
              /\ calls'[c].pc = "done")
                 => calls'[c].code \in {404, 500}]_vars

====
